---- MODULE Spec2Model ----
(***************************************************************************)
(* Model of website-archiver: the recursive fetch-and-rewrite downloader   *)
(* (Download, downloadRecursive, getPathFromURL, resolveURL) and the       *)
(* per-URL pipeline of the command (processURL and its helpers).           *)
(*                                                                         *)
(* A path string is modelled by its split on "/": a non-empty sequence of  *)
(* slash-free segments.  "" is <<"">>, "/" is <<"","">>, "/a/b" is         *)
(* <<"","a","b">>, "a/" is <<"a","">>, "//a" is <<"","","a">>.  The split  *)
(* is a bijection, so every string operation of the code has an exact      *)
(* counterpart on sequences.                                               *)
(***************************************************************************)
EXTENDS Integers, Sequences, FiniteSets, TLC

\* ------------------------------------------------------------------------
\* Strings: paths as sequences of segments
\* ------------------------------------------------------------------------

\* The string "" .
EmptyString == <<"">>

\* Segments that begin with the two characters "..": strings.HasPrefix(s, "..").
DotDotSegs == {"..", "..x"}

\* Segments whose text contains ".htm" (and so also the ones containing ".html").
HtmSegs == {"a.html", "index.html"}

Front(s) == SubSeq(s, 1, Len(s) - 1)

Last(s) == s[Len(s)]

\* strings.HasPrefix(p, "/")
HasPrefixSlash(p) == Len(p) >= 2 /\ p[1] = ""

\* strings.HasSuffix(p, "/")
HasSuffixSlash(p) == Len(p) >= 2 /\ Last(p) = ""

\* strings.TrimPrefix(p, "/"): one leading slash is removed, no more.
TrimPrefixSlash(p) == IF HasPrefixSlash(p) THEN Tail(p) ELSE p

\* p + name for a slash-free name and a p that is empty or ends in "/": the
\* last segment of p, which is empty, becomes name.
AppendName(p, name) == [p EXCEPT ![Len(p)] = name]

\* strings.HasPrefix(p, ".."): the first segment begins with "..".
HasPrefixDotDot(p) == p[1] \in DotDotSegs

\* The element loop of filepath.Clean: "" and "." are dropped, ".." removes
\* the last kept element when there is one to remove, is dropped at the root
\* of a rooted path and is kept otherwise.
RECURSIVE CleanLoop(_, _, _, _)
CleanLoop(p, i, rooted, out) ==
    IF i > Len(p) THEN out
    ELSE IF p[i] = "" \/ p[i] = "." THEN CleanLoop(p, i + 1, rooted, out)
    ELSE IF p[i] = ".." THEN
        IF Len(out) > 0 /\ Last(out) # ".." THEN CleanLoop(p, i + 1, rooted, Front(out))
        ELSE IF rooted THEN CleanLoop(p, i + 1, rooted, out)
        ELSE CleanLoop(p, i + 1, rooted, Append(out, ".."))
    ELSE CleanLoop(p, i + 1, rooted, Append(out, p[i]))

\* filepath.Clean of a path that is at hand as a value.
Cleaned(p) ==
    LET rooted == HasPrefixSlash(p)
        out == CleanLoop(p, 1, rooted, <<>>)
    IN  IF rooted THEN (IF out = <<>> THEN <<"", "">> ELSE <<"">> \o out)
        ELSE IF out = <<>> THEN <<".">> ELSE out

\* filepath.Clean: the argument is evaluated once, then cleaned.
Clean(p) == CHOOSE c \in { Cleaned(q) : q \in {p} } : TRUE

\* filepath.Join(a, b): empty elements are ignored, the rest are joined with
\* "/" and cleaned.
Join(a, b) ==
    IF a = EmptyString /\ b = EmptyString THEN EmptyString
    ELSE IF a = EmptyString THEN Clean(b)
    ELSE IF b = EmptyString THEN Clean(a)
    ELSE Clean(a \o b)

\* filepath.Dir(p): the path up to and including the last "/", cleaned.
Dir(p) == IF Len(p) = 1 THEN <<".">> ELSE Clean(Front(p) \o <<"">>)

\* The location loc is the directory root or lies below it (both cleaned).
AtOrBelow(root, loc) ==
    Len(loc) >= Len(root) /\ SubSeq(loc, 1, Len(root)) = root

\* ------------------------------------------------------------------------
\* getPathFromURL
\* ------------------------------------------------------------------------

\* The path with the default file name added when it is empty or ends in "/".
WithIndex(path, isHTML) ==
    IF HasSuffixSlash(path) \/ path = EmptyString
    THEN AppendName(path, IF isHTML THEN "index.html" ELSE "index")
    ELSE path

\* The cleaned path of getPathFromURL, before the ".." test.
CleanPath(path, isHTML) == Clean(TrimPrefixSlash(WithIndex(path, isHTML)))

\* getPathFromURL(u, isHTML), as a function of u.Path.
getPathFromURL(path, isHTML) ==
    LET cleanPath == CleanPath(path, isHTML)
    IN  IF HasPrefixDotDot(cleanPath) THEN EmptyString ELSE cleanPath

\* ------------------------------------------------------------------------
\* URLs and link attributes
\* ------------------------------------------------------------------------

\* A parsed url.URL: Hostname() is host, Port() is port, Path is path.  The
\* query stands for everything String() shows after the path.
URL(scheme, host, port, path, query) ==
    [scheme |-> scheme, host |-> host, port |-> port, path |-> path, query |-> query]

\* The nil *url.URL.
NilURL == URL("nil", "", "", EmptyString, "")

\* The value of an href, src or poster attribute.  kind tells what the text
\* starts with or is: "empty" (""), "fragment" ("#..."), "mailto", "tel",
\* "opaque" (a scheme followed by opaque data, as in javascript:void(0)),
\* "bad" (text url.Parse rejects) or "url" (any other reference).
Link(kind, scheme, host, path, query) ==
    [kind |-> kind, scheme |-> scheme, host |-> host, path |-> path, query |-> query]

Rel(path) == Link("url", "", "", path, "")

Abs(host, path) == Link("url", "http", host, path, "")

Special(kind) == Link(kind, "", "", EmptyString, "")

Opaque == Link("opaque", "javascript", "", EmptyString, "")

\* The text of the attribute, split on "/" like every other string: the value
\* an attribute keeps when the walk does not assign it.
LinkText(link) ==
    CASE link.kind = "empty" -> EmptyString
      [] link.kind = "fragment" -> <<"#top">>
      [] link.kind = "mailto" -> <<"mailto:a@site">>
      [] link.kind = "tel" -> <<"tel:1">>
      [] link.kind = "opaque" -> <<"javascript:void(0)">>
      [] link.kind = "bad" -> <<"%zz">>
      [] link.kind = "url" /\ link.scheme # "" -> <<"http:", "", link.host>> \o Tail(link.path)
      [] OTHER -> link.path

\* strings.Contains(link, ".html") || strings.Contains(link, ".htm")
LinkHasHtm(link) == \E i \in 1..Len(link.path) : link.path[i] \in HtmSegs

\* The loop of url.resolvePath over the elements of full: out is the text
\* written after the leading "/", first tells that nothing was written yet.
RECURSIVE ResolveLoop(_, _, _, _)
ResolveLoop(full, i, out, first) ==
    IF i > Len(full) THEN
        IF Last(full) = "." \/ Last(full) = ".." THEN out \o <<"">> ELSE out
    ELSE IF full[i] = "." THEN ResolveLoop(full, i + 1, out, FALSE)
    ELSE IF full[i] = ".." THEN
        IF Len(out) = 1 THEN ResolveLoop(full, i + 1, EmptyString, TRUE)
        ELSE ResolveLoop(full, i + 1, Front(out), first)
    ELSE IF first THEN ResolveLoop(full, i + 1, <<full[i]>>, FALSE)
    ELSE ResolveLoop(full, i + 1, Append(out, full[i]), FALSE)

\* url.resolvePath(base, ref): ref is taken relative to the directory of
\* base unless it is empty or starts with "/", and dot segments are removed.
resolvePath(base, ref) ==
    LET full == IF ref = EmptyString THEN base
                ELSE IF ~HasPrefixSlash(ref) THEN Front(base) \o ref
                ELSE ref
        out == ResolveLoop(full, 1, EmptyString, TRUE)
    IN  IF full = EmptyString THEN EmptyString
        ELSE IF HasPrefixSlash(out) THEN out
        ELSE <<"">> \o out

\* (*URL).ResolveReference
ResolveReference(base, ref) ==
    LET scheme == IF ref.scheme = "" THEN base.scheme ELSE ref.scheme
    IN  IF ref.kind = "opaque" THEN URL(ref.scheme, "", "", EmptyString, "")
        ELSE IF ref.scheme # "" \/ ref.host # ""
        THEN URL(scheme, ref.host, "", resolvePath(ref.path, EmptyString), ref.query)
        ELSE URL(scheme, base.host, base.port, resolvePath(base.path, ref.path), ref.query)

\* resolveURL(baseURL, ref): nil when ref does not parse.
resolveURL(baseURL, ref) ==
    IF ref.kind = "bad" THEN NilURL ELSE ResolveReference(baseURL, ref)

\* ------------------------------------------------------------------------
\* The web the downloader is run against
\* ------------------------------------------------------------------------

\* What a GET of a URL yields: status "ok" (200), "notfound" (any other
\* status) or "neterr" (client.Do fails); for "ok" whether the Content-Type
\* contains text/html, and the href, src and poster attributes of the page.
Response(status, isHTML, links) == [status |-> status, isHTML |-> isHTML, links |-> links]

NoResponse == Response("neterr", FALSE, <<>>)

RootPath == <<"", "">>

DocsPath == <<"", "docs", "">>

PageA == <<"", "docs", "a.html">>

AppPath == <<"", "app">>

HostsPath == <<"", "hosts.html">>

\* A host name with its letters in lower case; the servers of the model are
\* found by name whatever the case of the letters.
ToLower(host) == IF host = "SITE" THEN "site" ELSE host

\* The pages of host "site".
SitePage(path) ==
    CASE path = RootPath ->
           Response("ok", TRUE,
               <<Rel(DocsPath), Abs("other", <<"", "x">>), Special("fragment"),
                 Special("mailto")>>)
      [] path = DocsPath ->
           Response("ok", TRUE,
               <<Rel(<<"a.html">>), Rel(DocsPath), Special("empty"), Rel(RootPath)>>)
      [] path = PageA ->
           Response("ok", TRUE, <<Rel(<<"..", "">>)>>)
      [] path = AppPath ->
           Response("ok", TRUE,
               <<Rel(<<"logo.png">>), Rel(<<"", "..x">>), Opaque, Special("bad"),
                 Special("tel"), Rel(<<"missing">>), Rel(<<"app", "sub">>)>>)
      [] path = HostsPath ->
           Response("ok", TRUE,
               <<Abs("SITE", <<"", "logo.png">>), Abs("www.site", <<"", "logo.png">>)>>)
      [] path = <<"", "logo.png">> -> Response("ok", FALSE, <<>>)
      [] path = <<"", "..x">> -> Response("ok", FALSE, <<>>)
      [] path = <<"", "app", "sub">> -> Response("ok", FALSE, <<>>)
      [] path = <<"", "..", "..", "etc">> -> Response("ok", FALSE, <<>>)
      [] path = <<"", "", "etc">> -> Response("ok", FALSE, <<>>)
      [] OTHER -> Response("notfound", FALSE, <<>>)

\* The pages of host "other".
OtherPage(path) ==
    CASE path = <<"", "x">> -> Response("ok", TRUE, <<Abs("other", <<"", "y">>)>>)
      [] path = <<"", "y">> -> Response("ok", TRUE, <<>>)
      [] OTHER -> Response("notfound", FALSE, <<>>)

\* The page served on port 8080 of the local machine (http://:8080/).
LocalPage(path) ==
    CASE path = RootPath -> Response("ok", TRUE, <<Abs("other", <<"", "x">>)>>)
      [] OTHER -> Response("notfound", FALSE, <<>>)

\* client.Do(req): a request needs an http or https URL with a host or a
\* port to connect to; the query does not change what these servers send.
Fetch(u) ==
    IF u.scheme \notin {"http", "https"} THEN NoResponse
    ELSE IF u.host = "" /\ u.port = "" THEN NoResponse
    ELSE IF ToLower(u.host) = "site" /\ u.port = "" THEN SitePage(u.path)
    ELSE IF u.host = "other" /\ u.port = "" THEN OtherPage(u.path)
    ELSE IF u.host = "" /\ u.port = "8080" THEN LocalPage(u.path)
    ELSE NoResponse

\* The seed strings Download is called with, as url.Parse sees them: ok
\* tells whether the string parses, url is the parsed URL.
Seed(ok, url) == [ok |-> ok, url |-> url]

Seeds ==
    { Seed(TRUE, URL("http", "site", "", RootPath, "")),
      Seed(TRUE, URL("https", "site", "", AppPath, "")),
      Seed(TRUE, URL("http", "", "8080", RootPath, "")),
      Seed(TRUE, URL("http", "site", "", HostsPath, "")),
      Seed(TRUE, URL("http", "site", "", <<"", "..", "..", "etc">>, "")),
      Seed(TRUE, URL("http", "site", "", <<"", "", "etc">>, "")),
      Seed(TRUE, URL("http", "", "", <<"", "index.html">>, "")),
      Seed(TRUE, URL("ftp", "site", "", RootPath, "")),
      Seed(TRUE, URL("", "", "", <<"site", "">>, "")),
      Seed(FALSE, NilURL) }

\* ------------------------------------------------------------------------
\* State
\* ------------------------------------------------------------------------

VARIABLES
    seed,     \* Download's rawURL, as url.Parse sees it
    depth0,   \* Download's depth argument
    pc,       \* where the call of Download stands
    result,   \* what Download returned: "none" while it has not returned
    tasks,    \* the calls of downloadRecursive, in the order they were made
    dirs,     \* the directories that exist, as cleaned locations
    files,    \* the files that exist: location -> content
    faults    \* the number of environment failures so far

crawlVars == <<seed, depth0, pc, result, tasks, dirs, files, faults>>

\* One application of getPathFromURL.
VARIABLES
    urlPath,   \* u.Path
    urlHTML,   \* the isHTML argument
    mapped     \* <<"none">> before the call, <<"path", the path returned>> after it

pathVars == <<urlPath, urlHTML, mapped>>

\* One run of the command: main and a processURL per URL.
VARIABLES
    argDepth,      \* the depth argument
    flags,      \* createZim, allSnapshots and whether --snapshot was given
    wpc,        \* where each processURL stands
    outDir,     \* each URL's output directory: "absent", "present" or "removed"
    io,         \* each processURL's I/O so far: "mkdir", "wget" (the live URL),
                \* "wget-wayback", "cdx" (the lookup), "rm" and "rmfail" (os.RemoveAll)
    cdx,        \* the snapshots getCDXSnapshots returned to each processURL
    snapIdx,       \* the index of the snapshot downloadAllSnapshots handles snapIdx
    snaps,      \* downloadedSnapshots
    sent,       \* the DownloadResults sent, in order
    results,    \* the results channel: what was sent and not yet received
    closed,     \* close(results) was called
    wg,         \* the counter of the sync.WaitGroup
    mpc,        \* where main stands: in processResults, past it, or panicked
    successCount,  \* processResults' successCount
    handled     \* the number of results processResults has received

\* What processURL and the functions it calls leave alone.
collectVars == <<closed, wg, successCount, handled>>

mainVars == <<argDepth, flags, wpc, outDir, io, cdx, snapIdx, snaps, sent,
              results, mpc, collectVars>>

vars == <<crawlVars, pathVars, mainVars>>

\* The largest depth budget Download is called with.
MaxCrawlDepth == 2

\* The most failures of the environment (disk, permissions, parser) in a run.
MaxFaults == 1

\* Download's outputDir.
outputDir == <<"out">>

\* The baseDomain every call of downloadRecursive receives: parsedURL.Hostname().
baseDomain == seed.url.host

\* One call of downloadRecursive.  parent and link name the call and the
\* attribute that dispatched it (0 for the seed's); hops counts the links
\* followed from the seed; phase is the position in the function body;
\* gets counts the calls of client.Do;
\* fetched tells that client.Do was called, parsed that html.Parse returned
\* the document; result and err are what the call returned and the step
\* that failed.
NewTask(u, depth, hops, parent, link) ==
    [url |-> u, depth |-> depth, hops |-> hops, parent |-> parent, link |-> link,
     phase |-> "new", fetched |-> FALSE, gets |-> 0, isHTML |-> FALSE, parsed |-> FALSE,
     doc |-> <<>>,
     result |-> "none", err |-> "none"]

TaskIds == 1..Len(tasks)

\* A variant in which the error of a child becomes the result of its parent.
ChildFailedBubbles(ts, child) == [ts EXCEPT ![ts[child].parent].result = "err"]

\* The error of a child is logged by the goroutine that ran it and goes
\* nowhere else.
ChildFailed(ts, child) == ts

\* A call returns: nil ("ok") or an error, with the step that failed.
Finish(ts, t, res, e) ==
    LET done == [ts EXCEPT ![t].phase = "done", ![t].result = res, ![t].err = e]
    IN  IF res = "err" /\ ts[t].parent # 0 THEN ChildFailed(done, t) ELSE done

\* A variant that lets a call with depth -1 through.
DepthExhaustedOffByOne(depth) == depth < -1

\* if depth < 0 { return nil }
DepthExhausted(depth) == depth < 0

\* currentURL.Hostname() != baseDomain && baseDomain != ""
CrossDomain(u, base) == u.host # base /\ base # ""

\* A variant that maps the page a call saves the way the walk maps a link to
\* a page whose name does not tell that it is HTML.
FilePathOfLink(task) == Join(outputDir, getPathFromURL(task.url.path, FALSE))

\* The file a call writes: filepath.Join(outputDir, getPathFromURL(currentURL, isHTML)).
FilePath(task) == Join(outputDir, getPathFromURL(task.url.path, task.isHTML))

\* The directories os.MkdirAll(d) needs to exist: d and its ancestors; the
\* working directory "." is there already.
Prefixes(d) == IF d = <<".">> THEN {} ELSE { SubSeq(d, 1, k) : k \in 1..Len(d) }

\* os.MkdirAll(d) succeeds unless a file is in the way.
MkdirAllOK(d) == \A q \in Prefixes(d) : q \notin DOMAIN files

\* A variant of os.Create that refuses a file that exists (O_EXCL).
CreateOKExclusive(loc) == loc \notin dirs /\ loc \notin DOMAIN files

\* os.Create(loc), called after os.MkdirAll(Dir(loc)) has succeeded, succeeds
\* unless loc is a directory.
CreateOK(loc) == loc \notin dirs

\* A file's content: kind is "empty" (truncated), "raw" (the response body
\* of an HTML page), "rewritten" (the rendered document) or "bytes" (the
\* body of another resource); by is the call that wrote it.
Content(kind, by) == [kind |-> kind, by |-> by]

WriteTo(loc, c) == [q \in DOMAIN files \cup {loc} |-> IF q = loc THEN c ELSE files[q]]

\* ------------------------------------------------------------------------
\* The walk over a parsed page
\* ------------------------------------------------------------------------

\* The attribute is looked at: it is not "", "#...", "mailto:..." or "tel:...".
Candidate(link) == link.kind \notin {"empty", "fragment", "mailto", "tel"}

\* resolvedURL != nil && resolvedURL.String() != currentURL.String()
Followed(cur, link) ==
    /\ Candidate(link)
    /\ resolveURL(cur, link) # NilURL
    /\ resolveURL(cur, link) # cur

\* newLink: the value written into a followed attribute.
NewLink(cur, link) == getPathFromURL(resolveURL(cur, link).path, LinkHasHtm(link))

\* The attributes of the document after the walk: link is the original
\* value, rewritten tells whether n.Attr[i].Val was assigned, val is the
\* value assigned.
WalkedDoc(cur, links) ==
    [i \in 1..Len(links) |->
        [link |-> links[i],
         rewritten |-> Followed(cur, links[i]),
         val |-> IF Followed(cur, links[i]) THEN NewLink(cur, links[i]) ELSE EmptyString]]

\* A variant of the walk that resolves the links it follows against the
\* seed's URL.
DispatchedFromSeed(t, cur, depth, hops, links) ==
    LET idx == SelectSeq([i \in 1..Len(links) |-> i], LAMBDA i : Followed(cur, links[i]))
    IN  [k \in 1..Len(idx) |->
            NewTask(ResolveReference(seed.url, links[idx[k]]), depth - 1, hops + 1, t, idx[k])]

\* A variant of the walk that hands its own depth on to the calls it starts.
DispatchedSameDepth(t, cur, depth, hops, links) ==
    LET idx == SelectSeq([i \in 1..Len(links) |-> i], LAMBDA i : Followed(cur, links[i]))
    IN  [k \in 1..Len(idx) |->
            NewTask(resolveURL(cur, links[idx[k]]), depth, hops + 1, t, idx[k])]

\* The goroutines the walk starts, in document order.
Dispatched(t, cur, depth, hops, links) ==
    LET idx == SelectSeq([i \in 1..Len(links) |-> i], LAMBDA i : Followed(cur, links[i]))
    IN  [k \in 1..Len(idx) |->
            NewTask(resolveURL(cur, links[idx[k]]), depth - 1, hops + 1, t, idx[k])]

\* ------------------------------------------------------------------------
\* Download
\* ------------------------------------------------------------------------

CrawlInit ==
    /\ seed \in Seeds
    /\ depth0 \in -1..MaxCrawlDepth
    /\ pc = "start"
    /\ result = "none"
    /\ tasks = <<>>
    /\ dirs = {}
    /\ files = <<>>
    /\ faults = 0

\* url.Parse and the scheme test.
DownloadValidate ==
    /\ pc = "start"
    /\ IF seed.ok /\ seed.url.scheme \in {"http", "https"}
       THEN pc' = "mkdir" /\ result' = result
       ELSE pc' = "returned" /\ result' = "invalid"
    /\ UNCHANGED <<seed, depth0, tasks, dirs, files, faults, pathVars, mainVars>>

\* os.MkdirAll(outputDir), then the call of downloadRecursive for the seed.
DownloadMkdirAll ==
    /\ pc = "mkdir"
    /\ \/ /\ dirs' = dirs \cup Prefixes(outputDir)
          /\ tasks' = <<NewTask(seed.url, depth0, 0, 0, 0)>>
          /\ pc' = "running"
          /\ UNCHANGED <<result, faults>>
       \/ /\ faults < MaxFaults
          /\ faults' = faults + 1
          /\ pc' = "returned"
          /\ result' = "error"
          /\ UNCHANGED <<dirs, tasks>>
    /\ UNCHANGED <<seed, depth0, files, pathVars, mainVars>>

\* A variant of Download that returns only when every call it led to has.
DownloadReturnJoined ==
    /\ pc = "running"
    /\ \A t \in TaskIds : tasks[t].phase = "done"
    /\ pc' = "returned"
    /\ result' = IF tasks[1].result = "ok" THEN "ok" ELSE "error"
    /\ UNCHANGED <<seed, depth0, tasks, dirs, files, faults, pathVars, mainVars>>

\* return downloadRecursive(...): Download returns what the seed's call returned.
DownloadReturn ==
    /\ pc = "running"
    /\ tasks[1].phase = "done"
    /\ pc' = "returned"
    /\ result' = IF tasks[1].result = "ok" THEN "ok" ELSE "error"
    /\ UNCHANGED <<seed, depth0, tasks, dirs, files, faults, pathVars, mainVars>>

\* ------------------------------------------------------------------------
\* downloadRecursive
\* ------------------------------------------------------------------------

\* A variant that asks a second time when the first answer is not a 200.
AttemptsWithRetry(r) == IF r.status = "ok" THEN 1 ELSE 2

\* The calls of client.Do one call of downloadRecursive makes for the
\* response r: the request is sent once, outside any loop.
Attempts(r) == 1

\* A variant of the status test that lets every response through.
StatusIgnored(r) == r.status # "neterr"

\* resp.StatusCode != http.StatusOK returns an error.
StatusOK(r) == r.status = "ok"

\* The two early returns, the request and the status test.
Begin(t) ==
    /\ tasks[t].phase = "new"
    /\ \/ /\ DepthExhausted(tasks[t].depth)
          /\ tasks' = Finish(tasks, t, "ok", "none")
          /\ UNCHANGED faults
       \/ /\ ~DepthExhausted(tasks[t].depth)
          /\ CrossDomain(tasks[t].url, baseDomain)
          /\ tasks' = Finish(tasks, t, "ok", "none")
          /\ UNCHANGED faults
       \/ /\ ~DepthExhausted(tasks[t].depth)
          /\ ~CrossDomain(tasks[t].url, baseDomain)
          /\ faults < MaxFaults
          /\ faults' = faults + 1
          /\ tasks' = Finish(tasks, t, "err", "request")
       \/ /\ ~DepthExhausted(tasks[t].depth)
          /\ ~CrossDomain(tasks[t].url, baseDomain)
          /\ LET r == Fetch(tasks[t].url)
                 asked == [tasks EXCEPT ![t].fetched = TRUE, ![t].gets = @ + Attempts(r)]
             IN  tasks' =
                   IF r.status # "neterr" /\ StatusOK(r)
                   THEN [asked EXCEPT ![t].phase = "fetched", ![t].isHTML = r.isHTML]
                   ELSE Finish(asked, t, "err",
                               IF r.status = "neterr" THEN "fetch" ELSE "status")
          /\ UNCHANGED faults
    /\ UNCHANGED <<seed, depth0, pc, result, dirs, files, pathVars, mainVars>>

\* os.MkdirAll(dir) and os.Create(filePath), which truncates the file.
Create(t) ==
    /\ tasks[t].phase = "fetched"
    /\ LET loc == FilePath(tasks[t])
       IN  \/ /\ ~MkdirAllOK(Dir(loc))
              /\ tasks' = Finish(tasks, t, "err", "mkdir")
              /\ UNCHANGED <<dirs, files, faults>>
           \/ /\ MkdirAllOK(Dir(loc))
              /\ ~CreateOK(loc)
              /\ dirs' = dirs \cup Prefixes(Dir(loc))
              /\ tasks' = Finish(tasks, t, "err", "create")
              /\ UNCHANGED <<files, faults>>
           \/ /\ MkdirAllOK(Dir(loc))
              /\ faults < MaxFaults
              /\ faults' = faults + 1
              /\ dirs' = dirs \cup Prefixes(Dir(loc))
              /\ tasks' = Finish(tasks, t, "err", "create")
              /\ UNCHANGED files
           \/ /\ MkdirAllOK(Dir(loc))
              /\ CreateOK(loc)
              /\ dirs' = dirs \cup Prefixes(Dir(loc))
              /\ files' = WriteTo(loc, Content("empty", t))
              /\ tasks' = [tasks EXCEPT ![t].phase = "created"]
              /\ UNCHANGED faults
    /\ UNCHANGED <<seed, depth0, pc, result, pathVars, mainVars>>

\* The HTML branch up to the end of the walk: the body is written to the
\* file as it came, parsed, and every followed attribute starts a goroutine
\* and is rewritten.
Walk(t) ==
    /\ tasks[t].phase = "created"
    /\ tasks[t].isHTML
    /\ LET cur == tasks[t]
           loc == FilePath(cur)
           links == Fetch(cur.url).links
       IN  \/ /\ files' = WriteTo(loc, Content("raw", t))
              /\ tasks' = [tasks EXCEPT ![t].phase = "walked", ![t].parsed = TRUE,
                                        ![t].doc = WalkedDoc(cur.url, links)]
                          \o Dispatched(t, cur.url, cur.depth, cur.hops, links)
              /\ UNCHANGED faults
           \/ /\ faults < MaxFaults
              /\ faults' = faults + 1
              /\ \E e \in {"read", "write", "parse"} :
                    /\ tasks' = Finish(tasks, t, "err", e)
                    /\ files' = IF e = "parse" THEN WriteTo(loc, Content("raw", t))
                                ELSE files
    /\ UNCHANGED <<seed, depth0, pc, result, dirs, pathVars, mainVars>>

\* The other branch: io.Copy of the body into the file.
Copy(t) ==
    /\ tasks[t].phase = "created"
    /\ ~tasks[t].isHTML
    /\ \/ /\ files' = WriteTo(FilePath(tasks[t]), Content("bytes", t))
          /\ tasks' = Finish(tasks, t, "ok", "none")
          /\ UNCHANGED faults
       \/ /\ faults < MaxFaults
          /\ faults' = faults + 1
          /\ tasks' = Finish(tasks, t, "err", "copy")
          /\ UNCHANGED files
    /\ UNCHANGED <<seed, depth0, pc, result, dirs, pathVars, mainVars>>

\* html.Render and os.WriteFile of the rewritten document.
Persist(t) ==
    /\ tasks[t].phase = "walked"
    /\ \/ /\ files' = WriteTo(FilePath(tasks[t]), Content("rewritten", t))
          /\ tasks' = Finish(tasks, t, "ok", "none")
          /\ UNCHANGED faults
       \/ /\ faults < MaxFaults
          /\ faults' = faults + 1
          /\ \E e \in {"render", "writefile"} : tasks' = Finish(tasks, t, "err", e)
          /\ UNCHANGED files
    /\ UNCHANGED <<seed, depth0, pc, result, dirs, pathVars, mainVars>>

Next ==
    \/ DownloadValidate
    \/ DownloadMkdirAll
    \/ DownloadReturn
    \/ \E t \in TaskIds : Begin(t)
    \/ \E t \in TaskIds : Create(t)
    \/ \E t \in TaskIds : Walk(t)
    \/ \E t \in TaskIds : Copy(t)
    \/ \E t \in TaskIds : Persist(t)

\* Nothing of Download runs.
CrawlIdle ==
    /\ seed = Seed(FALSE, NilURL)
    /\ depth0 = 0
    /\ pc = "idle"
    /\ result = "none"
    /\ tasks = <<>>
    /\ dirs = {}
    /\ files = <<>>
    /\ faults = 0

\* ------------------------------------------------------------------------
\* getPathFromURL on every path
\* ------------------------------------------------------------------------

\* The longest u.Path, in segments.
MaxSegs == 4

\* The segments a u.Path is made of.
Segs == {"", ".", "..", "a", "..x"}

Paths == UNION { [1..n -> Segs] : n \in 1..MaxSegs }

PathIdle ==
    /\ urlPath = EmptyString
    /\ urlHTML = FALSE
    /\ mapped = <<"none">>

PathInit ==
    /\ urlPath \in Paths
    /\ urlHTML \in BOOLEAN
    /\ mapped = <<"none">>

\* The call getPathFromURL(u, isHTML).
MapPath ==
    /\ mapped = <<"none">>
    /\ mapped' = <<"path", getPathFromURL(urlPath, urlHTML)>>
    /\ UNCHANGED <<urlPath, urlHTML, crawlVars, mainVars>>

\* ------------------------------------------------------------------------
\* The command: processURL and what it calls
\* ------------------------------------------------------------------------

\* The number of URLs on the command line.
NumURLs == 2

\* The most data rows of a CDX response.
MaxCDXRows == 2

\* pkg.MaxDepth, the default of cfg.MaxDepth.
MaxDepth == 5

ZeroDepth == 0

MinCDXRows == 2

MinCDXFields == 6

Workers == 1..NumURLs

\* The rows of a CDX response: the header, a snapshot taken at the time ts,
\* and a row that is cut short.
HeaderRow == <<"timestamp", "original", "mimetype", "status", "digest", "length">>

DataRow(ts) == <<ts, "site", "text/html", "200", "digest", "10">>

ShortRow == <<"30", "site">>

RowSeqs == UNION { [1..n -> {DataRow("10"), DataRow("20"), ShortRow}] : n \in 0..MaxCDXRows }

\* The bodies the CDX API answers with, decoded: [] or a header and rows.
RawResponses == {<<>>} \cup { <<HeaderRow>> \o r : r \in RowSeqs }

\* parseCDXResponse: err tells that it returned an error.
parseCDXResponse(rawResponse) ==
    IF Len(rawResponse) < MinCDXRows THEN [err |-> TRUE, snapshots |-> <<>>]
    ELSE [err |-> FALSE,
          snapshots |->
             LET rows == SelectSeq(Tail(rawResponse), LAMBDA row : Len(row) >= MinCDXFields)
             IN  [k \in 1..Len(rows) |-> [Timestamp |-> rows[k][1], Original |-> rows[k][2]]]]

\* The depth test of downloadWithWget: wget runs only when it passes.
DepthInRange(d) == ~(d < ZeroDepth \/ d > MaxDepth)

MainIdle ==
    /\ argDepth = 0
    /\ flags = [zim |-> FALSE, all |-> FALSE, specific |-> FALSE]
    /\ wpc = [w \in Workers |-> "idle"]
    /\ outDir = [w \in Workers |-> "absent"]
    /\ io = [w \in Workers |-> <<>>]
    /\ cdx = [w \in Workers |-> <<>>]
    /\ snapIdx = [w \in Workers |-> 1]
    /\ snaps = [w \in Workers |-> <<>>]
    /\ sent = <<>>
    /\ results = <<>>
    /\ closed = FALSE
    /\ wg = 0
    /\ mpc = "idle"
    /\ successCount = 0
    /\ handled = 0

\* main after the loop that starts the goroutines: wg.Add(1) was called for
\* every URL, nothing was sent, and main is about to call processResults.
MainInit ==
    /\ argDepth \in {-1, ZeroDepth, MaxDepth, MaxDepth + 1}
    /\ flags \in [zim : BOOLEAN, all : BOOLEAN, specific : BOOLEAN]
    /\ wpc = [w \in Workers |-> "start"]
    /\ outDir = [w \in Workers |-> "absent"]
    /\ io = [w \in Workers |-> <<>>]
    /\ cdx = [w \in Workers |-> <<>>]
    /\ snapIdx = [w \in Workers |-> 1]
    /\ snaps = [w \in Workers |-> <<>>]
    /\ sent = <<>>
    /\ results = <<>>
    /\ closed = FALSE
    /\ wg = NumURLs
    /\ mpc = "collect"
    /\ successCount = 0
    /\ handled = 0

\* make(chan DownloadResult, len(urls)): the capacity of the channel.
ResultsCap == NumURLs

\* results <- DownloadResult{...}: the send waits while the buffer is full,
\* and panics when the channel is closed.
Send(w, err) ==
    /\ Len(results) < ResultsCap
    /\ sent' = Append(sent, [url |-> w, err |-> err])
    /\ IF closed
       THEN results' = results /\ mpc' = "panic"
       ELSE results' = Append(results, [url |-> w, err |-> err]) /\ mpc' = mpc

\* processURL up to the download: os.MkdirAll(outputDir).
ProcMkdir(w) ==
    /\ wpc[w] = "start"
    /\ \/ /\ outDir' = [outDir EXCEPT ![w] = "present"]
          /\ io' = [io EXCEPT ![w] = Append(@, "mkdir")]
          /\ wpc' = [wpc EXCEPT ![w] = IF flags.specific THEN "specific" ELSE "direct"]
          /\ UNCHANGED <<sent, results, mpc>>
       \/ /\ Send(w, TRUE)
          /\ wpc' = [wpc EXCEPT ![w] = "done"]
          /\ UNCHANGED <<outDir, io>>
    /\ UNCHANGED <<argDepth, flags, cdx, snapIdx, snaps, collectVars, crawlVars, pathVars>>

\* handleSpecificSnapshot: downloadSnapshot runs wget on the snapshot's URL.
ProcSpecific(w) ==
    /\ wpc[w] = "specific"
    /\ \/ /\ ~DepthInRange(argDepth)
          /\ wpc' = [wpc EXCEPT ![w] = "fail"]
          /\ UNCHANGED <<io, snaps>>
       \/ /\ DepthInRange(argDepth)
          /\ io' = [io EXCEPT ![w] = Append(@, "wget-wayback")]
          /\ \/ wpc' = [wpc EXCEPT ![w] = "fail"] /\ UNCHANGED snaps
             \/ /\ wpc' = [wpc EXCEPT ![w] = "post"]
                /\ snaps' = [snaps EXCEPT ![w] = <<"specific">>]
    /\ UNCHANGED <<argDepth, flags, outDir, cdx, snapIdx, sent, results, mpc, collectVars,
                 crawlVars, pathVars>>

\* A variant that asks for the archived versions after the direct download,
\* whether it failed or not.
ProcDirectThenArchived(w) ==
    /\ wpc[w] = "direct"
    /\ DepthInRange(argDepth)
    /\ io' = [io EXCEPT ![w] = Append(@, "wget")]
    /\ wpc' = [wpc EXCEPT ![w] = "cdx"]
    /\ \/ UNCHANGED snaps
       \/ snaps' = [snaps EXCEPT ![w] = <<"Current">>]
    /\ UNCHANGED <<argDepth, flags, outDir, cdx, snapIdx, sent, results, mpc, collectVars,
                   crawlVars, pathVars>>

\* handleCurrentOrArchivedVersion: downloadCurrentVersion runs wget on the URL.
ProcDirect(w) ==
    /\ wpc[w] = "direct"
    /\ \/ /\ ~DepthInRange(argDepth)
          /\ wpc' = [wpc EXCEPT ![w] = "cdx"]
          /\ UNCHANGED <<io, snaps>>
       \/ /\ DepthInRange(argDepth)
          /\ io' = [io EXCEPT ![w] = Append(@, "wget")]
          /\ \/ wpc' = [wpc EXCEPT ![w] = "cdx"] /\ UNCHANGED snaps
             \/ /\ wpc' = [wpc EXCEPT ![w] = "post"]
                /\ snaps' = [snaps EXCEPT ![w] = <<"Current">>]
    /\ UNCHANGED <<argDepth, flags, outDir, cdx, snapIdx, sent, results, mpc, collectVars,
                 crawlVars, pathVars>>

\* downloadArchivedVersion up to the choice between one snapshot and all:
\* getCDXSnapshots asks the CDX API and parses the answer.
ProcCDX(w) ==
    /\ wpc[w] = "cdx"
    /\ io' = [io EXCEPT ![w] = Append(@, "cdx")]
    /\ \/ wpc' = [wpc EXCEPT ![w] = "fail"] /\ UNCHANGED cdx
       \/ \E raw \in RawResponses :
             LET parsed == parseCDXResponse(raw)
             IN  IF parsed.err \/ Len(parsed.snapshots) = 0
                 THEN wpc' = [wpc EXCEPT ![w] = "fail"] /\ UNCHANGED cdx
                 ELSE /\ cdx' = [cdx EXCEPT ![w] = parsed.snapshots]
                      /\ wpc' = [wpc EXCEPT ![w] = IF flags.all THEN "all" ELSE "archived"]
    /\ UNCHANGED <<argDepth, flags, outDir, snapIdx, snaps, sent, results, mpc, collectVars,
                 crawlVars, pathVars>>

\* downloadArchivedVersion for one snapshot: wget on snapshots[FirstIndex].
ProcArchived(w) ==
    /\ wpc[w] = "archived"
    /\ \/ /\ ~DepthInRange(argDepth)
          /\ wpc' = [wpc EXCEPT ![w] = "fail"]
          /\ UNCHANGED <<io, snaps>>
       \/ /\ DepthInRange(argDepth)
          /\ io' = [io EXCEPT ![w] = Append(@, "wget-wayback")]
          /\ \/ wpc' = [wpc EXCEPT ![w] = "fail"] /\ UNCHANGED snaps
             \/ /\ wpc' = [wpc EXCEPT ![w] = "post"]
                /\ snaps' = [snaps EXCEPT ![w] = <<cdx[w][1].Timestamp>>]
    /\ UNCHANGED <<argDepth, flags, outDir, cdx, snapIdx, sent, results, mpc, collectVars,
                 crawlVars, pathVars>>

\* One turn of the loop of downloadAllSnapshots: the snapshot's directory,
\* then wget; a failure of either skips the snapshot.  After the last turn
\* the list is returned, with no error.
ProcAllSnapshots(w) ==
    /\ wpc[w] = "all"
    /\ IF snapIdx[w] > Len(cdx[w])
       THEN /\ wpc' = [wpc EXCEPT ![w] = "post"]
            /\ UNCHANGED <<io, snapIdx, snaps>>
       ELSE /\ snapIdx' = [snapIdx EXCEPT ![w] = @ + 1]
            /\ UNCHANGED wpc
            /\ \/ UNCHANGED <<io, snaps>>
               \/ /\ io' = [io EXCEPT ![w] = Append(@, "mkdir")]
                  /\ ~DepthInRange(argDepth)
                  /\ UNCHANGED snaps
               \/ /\ io' = [io EXCEPT ![w] = Append(Append(@, "mkdir"), "wget-wayback")]
                  /\ DepthInRange(argDepth)
                  /\ \/ UNCHANGED snaps
                     \/ snaps' = [snaps EXCEPT ![w] = Append(@, cdx[w][snapIdx[w]].Timestamp)]
    /\ UNCHANGED <<argDepth, flags, outDir, cdx, sent, results, mpc, collectVars,
                 crawlVars, pathVars>>

\* handlePostDownloadTasks: the selection page and the ZIM file leave the
\* directory in place, os.RemoveAll(outputDir) removes it unless it fails.
ProcPost(w) ==
    /\ wpc[w] = "post"
    /\ wpc' = [wpc EXCEPT ![w] = "report"]
    /\ \/ /\ outDir' = [outDir EXCEPT ![w] = "removed"]
          /\ io' = [io EXCEPT ![w] = Append(@, "rm")]
       \/ /\ io' = [io EXCEPT ![w] = Append(@, "rmfail")]
          /\ UNCHANGED outDir
    /\ UNCHANGED <<argDepth, flags, cdx, snapIdx, snaps, sent, results, mpc, collectVars,
                 crawlVars, pathVars>>

\* handleDownloadResult(url, outputDir, nil, results)
ProcReport(w) ==
    /\ wpc[w] = "report"
    /\ Send(w, FALSE)
    /\ wpc' = [wpc EXCEPT ![w] = "done"]
    /\ UNCHANGED <<argDepth, flags, outDir, io, cdx, snapIdx, snaps, collectVars,
                   crawlVars, pathVars>>

\* handleDownloadResult with an error: the result is sent first.
ProcFail(w) ==
    /\ wpc[w] = "fail"
    /\ Send(w, TRUE)
    /\ wpc' = [wpc EXCEPT ![w] = "cleanup"]
    /\ UNCHANGED <<argDepth, flags, outDir, io, cdx, snapIdx, snaps, collectVars,
                   crawlVars, pathVars>>

\* A variant of the error path that returns without os.RemoveAll.
ProcCleanupSkipped(w) ==
    /\ wpc[w] = "cleanup"
    /\ wpc' = [wpc EXCEPT ![w] = "done"]
    /\ UNCHANGED <<argDepth, flags, outDir, io, cdx, snapIdx, snaps, sent, results, mpc,
                   collectVars, crawlVars, pathVars>>

\* ... and then os.RemoveAll(outputDir), whose failure is logged.
ProcCleanup(w) ==
    /\ wpc[w] = "cleanup"
    /\ wpc' = [wpc EXCEPT ![w] = "done"]
    /\ \/ /\ outDir' = [outDir EXCEPT ![w] = "removed"]
          /\ io' = [io EXCEPT ![w] = Append(@, "rm")]
       \/ /\ io' = [io EXCEPT ![w] = Append(@, "rmfail")]
          /\ UNCHANGED outDir
    /\ UNCHANGED <<argDepth, flags, cdx, snapIdx, snaps, sent, results, mpc, collectVars,
                 crawlVars, pathVars>>

\* defer wg.Done() of the goroutine that ran processURL.
WorkerDone(w) ==
    /\ wpc[w] = "done"
    /\ wpc' = [wpc EXCEPT ![w] = "exited"]
    /\ wg' = wg - 1
    /\ UNCHANGED <<argDepth, flags, outDir, io, cdx, snapIdx, snaps, sent, results, mpc,
                   closed, successCount, handled, crawlVars, pathVars>>

\* A variant that closes the channel without waiting for the goroutines.
WaitGroupIgnored == TRUE

\* wg.Wait() returns: the counter is zero.
WaitGroupDone == wg = 0

\* The goroutine that waits for the others and closes the channel.
CloseResults ==
    /\ ~closed
    /\ WaitGroupDone
    /\ closed' = TRUE
    /\ UNCHANGED <<argDepth, flags, wpc, outDir, io, cdx, snapIdx, snaps, sent, results, mpc,
                   wg, successCount, handled, crawlVars, pathVars>>

\* A variant of the summary that counts every result as a success.
CountsAsSuccessAlways(r) == TRUE

\* result.Error == nil
CountsAsSuccess(r) == ~r.err

\* One turn of the loop of processResults: a result is received and counted.
Collect ==
    /\ mpc = "collect"
    /\ results # <<>>
    /\ results' = Tail(results)
    /\ handled' = handled + 1
    /\ successCount' = IF CountsAsSuccess(Head(results)) THEN successCount + 1
                       ELSE successCount
    /\ UNCHANGED <<argDepth, flags, wpc, outDir, io, cdx, snapIdx, snaps, sent, mpc,
                   closed, wg, crawlVars, pathVars>>

\* The loop of processResults ends when the channel is closed and empty;
\* the summary is logged and main calls os.Exit.
Summarize ==
    /\ mpc = "collect"
    /\ results = <<>>
    /\ closed
    /\ mpc' = "exited"
    /\ UNCHANGED <<argDepth, flags, wpc, outDir, io, cdx, snapIdx, snaps, sent, results,
                   collectVars, crawlVars, pathVars>>

MainNext ==
    \/ \E w \in Workers : ProcMkdir(w)
    \/ \E w \in Workers : ProcSpecific(w)
    \/ \E w \in Workers : ProcDirect(w)
    \/ \E w \in Workers : ProcCDX(w)
    \/ \E w \in Workers : ProcArchived(w)
    \/ \E w \in Workers : ProcAllSnapshots(w)
    \/ \E w \in Workers : ProcPost(w)
    \/ \E w \in Workers : ProcReport(w)
    \/ \E w \in Workers : ProcFail(w)
    \/ \E w \in Workers : ProcCleanup(w)
    \/ \E w \in Workers : WorkerDone(w)
    \/ CloseResults
    \/ Collect
    \/ Summarize

\* ------------------------------------------------------------------------
\* Specifications
\* ------------------------------------------------------------------------

Init == CrawlInit /\ PathIdle /\ MainIdle

\* One call of Download.
Spec == Init /\ [][Next]_vars

\* One call of Download in which every goroutine that can take a step
\* eventually takes one: every fetch and every file system call returns.
SpecLive == Spec /\ WF_vars(Next)

InitPath == PathInit /\ CrawlIdle /\ MainIdle

NextPath == MapPath

\* One call of getPathFromURL.
SpecPath == InitPath /\ [][NextPath]_vars

InitMain == MainInit /\ CrawlIdle /\ PathIdle

\* One run of the command.
SpecMain == InitMain /\ [][MainNext]_vars

\* One run of the command in which every goroutine that can take a step
\* eventually takes one: the scheduler runs every runnable goroutine, and
\* wget, the CDX lookup and the file system calls return.
SpecMainLive == SpecMain /\ WF_vars(MainNext)

\* ------------------------------------------------------------------------
\* Properties
\* ------------------------------------------------------------------------

\* The calls that returned.
Returned == { t \in TaskIds : tasks[t].phase = "done" }

\* The calls that fetched a page, walked it and wrote the rendered document.
Persisted == { t \in Returned : tasks[t].parsed /\ tasks[t].result = "ok" }

\* The calls a walk dispatched for attribute i of the page of call p.
ChildrenOf(p, i) == { c \in TaskIds : tasks[c].parent = p /\ tasks[c].link = i }

\* The value of attribute i in the document of call p.
AttrVal(p, i) ==
    IF tasks[p].doc[i].rewritten THEN tasks[p].doc[i].val
    ELSE LinkText(tasks[p].doc[i].link)

\* C1 (depth termination): a call fetches only with a depth budget d >= 0
\* and at most d links away from the seed; a call whose remaining depth is
\* negative returns nil and has fetched and written nothing; with d = 0 no
\* call but the seed's fetches, and the seed's does once it is past its
\* request.
DepthTermination ==
    /\ \A t \in TaskIds :
          tasks[t].fetched => depth0 >= 0 /\ tasks[t].hops <= depth0
    /\ \A t \in Returned :
          tasks[t].depth < 0 =>
             /\ tasks[t].result = "ok"
             /\ ~tasks[t].fetched
             /\ \A loc \in DOMAIN files : files[loc].by # t
    /\ depth0 = 0 =>
          /\ \A t \in TaskIds : tasks[t].fetched => t = 1
          /\ (tasks # <<>> /\ tasks[1].phase # "new" /\ tasks[1].err # "request")
                => tasks[1].fetched

\* The seed was fetched with depth 0, its links were dispatched with depth
\* -1, and all those calls have returned.
DepthTerminationWitness ==
    /\ depth0 = 0
    /\ Len(tasks) > 1
    /\ tasks[1].fetched
    /\ \A t \in 2..Len(tasks) : tasks[t].hops = 1 /\ t \in Returned

\* C2 (domain containment): only pages of the seed's host are parsed, and
\* every fetch but the seed's is for a link found on a page of that host.
DomainContainment ==
    \A t \in TaskIds :
        /\ tasks[t].parsed => tasks[t].url.host = baseDomain
        /\ (tasks[t].fetched /\ tasks[t].parent # 0)
              => tasks[tasks[t].parent].url.host = baseDomain

\* C3 (path safety): getPathFromURL returns "" or a relative path that,
\* joined to the output root, is the root or lies below it.
PathSafety ==
    mapped[1] = "path" =>
        \/ mapped[2] = EmptyString
        \/ /\ ~HasPrefixSlash(mapped[2])
           /\ AtOrBelow(outputDir, Join(outputDir, mapped[2]))

\* C4 (rewrite consistency): in a persisted page every href, src or poster
\* that is not empty, not a fragment, not mailto: or tel:, and resolves, has
\* the value getPathFromURL of the resolved URL.
RewriteConsistency ==
    \A p \in Persisted : \A i \in DOMAIN tasks[p].doc :
        LET link == tasks[p].doc[i].link
        IN  (Candidate(link) /\ resolveURL(tasks[p].url, link) # NilURL)
               => AttrVal(p, i) = NewLink(tasks[p].url, link)

\* C5 (links point at the mirrored copy): a link of a persisted page whose
\* target is on the seed's host and was fetched and saved in the same run
\* has, as its value, the path under the output root the target was saved at.
LinksPointAtMirroredCopy ==
    \A p \in Persisted : \A i \in DOMAIN tasks[p].doc : \A c \in ChildrenOf(p, i) :
        (/\ c \in Returned
         /\ tasks[c].result = "ok"
         /\ tasks[c].fetched
         /\ tasks[c].url.host = baseDomain)
            => Join(outputDir, AttrVal(p, i)) = FilePath(tasks[c])

\* C6 (seed validation): for a seed that is not an absolute http or https
\* URL with a host, Download makes no directory, fetches nothing and
\* returns the invalid-input error.
SeedValidation ==
    ~(seed.ok /\ seed.url.scheme \in {"http", "https"}
              /\ (seed.url.host # "" \/ seed.url.port # ""))
        => /\ dirs = {}
           /\ tasks = <<>>
           /\ pc = "returned" => result = "invalid"

\* C7 (depth range validation): with a depth outside [0, MaxDepth] no
\* processURL makes a directory, runs wget or asks the CDX API.
DepthValidatedBeforeIO ==
    ~DepthInRange(argDepth) =>
        \A w \in Workers : io[w] = <<>> /\ outDir[w] = "absent"

\* C8 (cross-domain resources are fetched once): when everything has
\* returned, each link of the seed's page (seed on a host D, depth >= 1)
\* that resolves to another host was fetched by exactly one call, and that
\* call saved it.
CrossDomainFetchedOnce ==
    (/\ pc = "returned"
     /\ Returned = TaskIds
     /\ depth0 >= 1
     /\ baseDomain # ""
     /\ 1 \in Persisted)
        => \A i \in DOMAIN tasks[1].doc :
              LET link == tasks[1].doc[i].link
                  u == resolveURL(tasks[1].url, link)
              IN  (Candidate(link) /\ u.scheme \in {"http", "https"} /\ u.host # baseDomain)
                     => /\ Cardinality({ c \in ChildrenOf(1, i) : tasks[c].fetched }) = 1
                        /\ \E loc \in DOMAIN files : files[loc].by \in ChildrenOf(1, i)

\* C9 (failure isolation): a call has returned an error exactly when one of
\* its own steps failed, whatever the calls it dispatched returned; Download
\* has returned an error only when its own MkdirAll or a step of the seed's
\* call failed; and the step in which a call returns an error changes no
\* other call.
FailureIsolation ==
    /\ [](\A t \in Returned : tasks[t].result = "err" <=> tasks[t].err # "none")
    /\ [](result = "error" => tasks = <<>> \/ tasks[1].err # "none")
    /\ [][\A c \in TaskIds :
             (c \notin Returned /\ tasks'[c].phase = "done" /\ tasks'[c].result = "err")
                => \A t \in TaskIds \ {c} : tasks'[t] = tasks[t]]_vars

\* A child has returned an error, its parent has persisted its page and
\* returned nil, and Download has returned nil.
FailureIsolationWitness ==
    /\ result = "ok"
    /\ \E c \in Returned :
          /\ tasks[c].result = "err"
          /\ tasks[c].parent \in Persisted
          /\ files[FilePath(tasks[tasks[c].parent])] = Content("rewritten", tasks[c].parent)

\* C10 (path-safety violations are dropped): a link whose resolved URL maps
\* to the empty path keeps its original value and no call is dispatched
\* for it.
RejectedLinksDropped ==
    \A p \in TaskIds : \A i \in DOMAIN tasks[p].doc :
        LET link == tasks[p].doc[i].link
        IN  (/\ Candidate(link)
             /\ resolveURL(tasks[p].url, link) # NilURL
             /\ NewLink(tasks[p].url, link) = EmptyString)
               => /\ ~tasks[p].doc[i].rewritten
                  /\ ChildrenOf(p, i) = {}

\* C11 (candidate skipping): an attribute that is empty, a fragment
\* reference, or of a scheme that cannot be fetched (mailto:, tel:,
\* javascript:, data:) keeps its value, and no call is dispatched for it.
CandidateSkipping ==
    \A p \in TaskIds : \A i \in DOMAIN tasks[p].doc :
        tasks[p].doc[i].link.kind \in {"empty", "fragment", "mailto", "tel", "opaque"}
           => /\ ~tasks[p].doc[i].rewritten
              /\ ChildrenOf(p, i) = {}

\* C12 (parse errors persist nothing): after a call has returned with a parse
\* or a serialization error, no file at the page's mapped path holds the raw
\* bytes that call wrote.
ParseErrorsPersistNothing ==
    \A t \in Returned :
        tasks[t].err \in {"parse", "render"} =>
           ~(/\ FilePath(tasks[t]) \in DOMAIN files
             /\ files[FilePath(tasks[t])] = Content("raw", t))

\* The location the source computes for the page of a call, spelled out.
MappedPath(task) == Join(<<"out">>, getPathFromURL(task.url.path, task.isHTML))

\* The file at the mapped path of call t is the one t finished: the body of
\* a resource that is not HTML, the rendered document of one that is.
HoldsOwnFile(t) ==
    /\ MappedPath(tasks[t]) \in DOMAIN files
    /\ files[MappedPath(tasks[t])] =
          [kind |-> IF tasks[t].isHTML THEN "rewritten" ELSE "bytes", by |-> t]

\* Call t returns nil in this step.
ReturnsNil(t) ==
    /\ t \in TaskIds
    /\ tasks[t].phase # "done"
    /\ tasks'[t].phase = "done"
    /\ tasks'[t].result = "ok"

ProcReturned(w) == wpc[w] \in {"done", "exited"}

\* The results worker w has sent, in order.
SentBy(w) == SelectSeq(sent, LAMBDA r : r.url = w)

\* The entries of an I/O trail that are e.
Count(trail, e) == Cardinality({ k \in 1..Len(trail) : trail[k] = e })

\* C14 (output is kept after success): once a result without an error was
\* sent for a URL, the URL's output directory exists.
OutputKeptAfterSuccess ==
    \A k \in 1..Len(sent) :
        ~sent[k].err => outDir[sent[k].url] = "present"

\* C15 as stated (cleanup on failure): when processURL has returned with an
\* error after it created the output directory, the directory is removed.
CleanupOnFailure ==
    \A w \in Workers :
        (/\ ProcReturned(w)
         /\ io[w] # <<>>
         /\ SentBy(w) = <<[url |-> w, err |-> TRUE]>>)
           => outDir[w] = "removed"

\* C15, amended: a failed download sends the result with the error, and
\* processURL then calls os.RemoveAll on the output directory before it
\* returns; the directory is removed unless that call failed.
CleanupAttemptedOnFailure ==
    /\ [][\A w \in Workers :
             (wpc[w] = "fail" /\ wpc'[w] # "fail")
                => /\ sent' = Append(sent, [url |-> w, err |-> TRUE])
                   /\ ~ProcReturned(w)']_vars
    /\ [](\A w \in Workers :
             (/\ ProcReturned(w)
              /\ io[w] # <<>>
              /\ SentBy(w) = <<[url |-> w, err |-> TRUE]>>)
                => /\ Last(io[w]) \in {"rm", "rmfail"}
                   /\ Last(io[w]) = "rm" => outDir[w] = "removed"
                   /\ Count(io[w], "rm") + Count(io[w], "rmfail") = 1)

\* A download failed after wget ran, the error was sent and the directory
\* was removed.
CleanupAttemptedOnFailureWitness ==
    \E w \in Workers :
        /\ ProcReturned(w)
        /\ Count(io[w], "wget") = 1
        /\ SentBy(w) = <<[url |-> w, err |-> TRUE]>>
        /\ Last(io[w]) = "rm"
        /\ outDir[w] = "removed"

\* C16 (the snapshot index is a fallback only): without --snapshot, the CDX
\* lookup comes right after the direct download of the live URL, which
\* failed (wget ran and failed, or downloadWithWget rejected the depth); a
\* direct download that succeeded is followed by no lookup and no download
\* from the Wayback Machine; with --snapshot there is no lookup at all.
SnapshotIndexIsFallbackOnly ==
    \A w \in Workers :
        /\ \A k \in 1..Len(io[w]) :
              io[w][k] = "cdx" =>
                 /\ ~flags.specific
                 /\ SubSeq(io[w], 1, k - 1) =
                       (IF DepthInRange(argDepth) THEN <<"mkdir", "wget">> ELSE <<"mkdir">>)
                 /\ \A j \in 1..Len(snaps[w]) : snaps[w][j] # "Current"
        /\ (\E j \in 1..Len(snaps[w]) : snaps[w][j] = "Current") =>
              /\ Count(io[w], "cdx") = 0
              /\ Count(io[w], "wget-wayback") = 0
              /\ Count(io[w], "wget") = 1

\* One URL was downloaded directly and another from the Wayback Machine
\* after its direct download had failed.
SnapshotIndexIsFallbackOnlyWitness ==
    \E w \in Workers : \E v \in Workers :
        /\ ProcReturned(w) /\ snaps[w] = <<"Current">>
        /\ ProcReturned(v)
        /\ Len(io[v]) >= 4
        /\ SubSeq(io[v], 1, 4) = <<"mkdir", "wget", "cdx", "wget-wayback">>
        /\ snaps[v] # <<>>

\* C17 (Wayback failures fall back to direct download): when a URL is
\* reported as failed after a step of the Wayback Machine was taken for it
\* (with a depth in range), wget was run on the live URL.
WaybackFailureFallsBack ==
    \A k \in 1..Len(sent) :
        LET w == sent[k].url
        IN  (/\ sent[k].err
             /\ DepthInRange(argDepth)
             /\ Count(io[w], "cdx") + Count(io[w], "wget-wayback") > 0)
               => Count(io[w], "wget") > 0

\* C18 (one result per seed): every worker sends at most one result, and
\* exactly one by the time its processURL has returned; a worker that has
\* not sent yet finds room in the channel; the channel is closed only when
\* every worker has finished; and no send meets a closed channel.
OneResultPerSeed ==
    /\ \A w \in Workers :
          /\ Len(SentBy(w)) <= 1
          /\ wpc[w] \in {"cleanup", "done", "exited"} <=> Len(SentBy(w)) = 1
          /\ Len(SentBy(w)) = 0 => Len(results) < ResultsCap
    /\ Len(results) <= NumURLs
    /\ closed => \A w \in Workers : wpc[w] = "exited"
    /\ mpc # "panic"

\* Every worker has sent its result, one of them after a failure to create
\* the directory and one after a failed download, and the channel was closed
\* after the last of them had finished.
OneResultPerSeedWitness ==
    /\ closed
    /\ Len(sent) = NumURLs
    /\ \E w \in Workers : io[w] = <<>>
    /\ \E w \in Workers : io[w] # <<>> /\ SentBy(w) = <<[url |-> w, err |-> TRUE]>>

\* The results without an error among those sent.
Successes == Cardinality({ k \in 1..Len(sent) : ~sent[k].err })

\* C19 (result collection terminates): processResults returns, and when it
\* has, it has received one result per URL, all that were sent, and
\* successCount is the number of URLs whose result has no error, so that
\* the summary's successful and failed add up to totalURLs.
ResultCollectionTerminates ==
    /\ <>(mpc = "exited")
    /\ [](mpc = "exited" =>
             /\ handled = NumURLs
             /\ Len(sent) = NumURLs
             /\ results = <<>>
             /\ \A w \in Workers : Len(SentBy(w)) = 1
             /\ successCount = Successes
             /\ successCount + (NumURLs - successCount) = NumURLs
             /\ NumURLs - successCount = Cardinality({ k \in 1..Len(sent) : sent[k].err }))

\* processResults has returned after a run with a success and a failure.
ResultCollectionTerminatesWitness ==
    /\ mpc = "exited"
    /\ handled = NumURLs
    /\ successCount >= 1
    /\ successCount < NumURLs

\* C20 (untracked fan-out): the walk starts one call for every attribute it
\* follows and none for the others, in the step that discovers them; a call
\* that has walked its page can render and return whatever its children are
\* doing; and Download can return as soon as the seed's call has.
UntrackedFanOut ==
    /\ \A p \in TaskIds : \A i \in DOMAIN tasks[p].doc :
          Cardinality(ChildrenOf(p, i)) = IF tasks[p].doc[i].rewritten THEN 1 ELSE 0
    /\ \A p \in TaskIds : tasks[p].phase = "walked" => ENABLED Persist(p)
    /\ (pc = "running" /\ tasks[1].phase = "done") => ENABLED DownloadReturn

\* Download has returned nil while a call the seed's page led to has not
\* started and another has its response but has not written its file.
UntrackedFanOutWitness ==
    /\ pc = "returned"
    /\ result = "ok"
    /\ \E c \in TaskIds : tasks[c].parent = 1 /\ tasks[c].phase = "new"
    /\ \E c \in TaskIds : tasks[c].parent = 1 /\ tasks[c].phase \in {"fetched", "created"}

\* The calls that returned because the request, the GET or the status failed.
FailedFetch == { t \in Returned : tasks[t].err \in {"request", "fetch", "status"} }

\* C21 (no retries): a call of downloadRecursive sends at most one GET, and
\* a call whose request, GET or status failed sent at most that one and
\* started no other call, so that nothing asks again for its target.
NoRetries ==
    /\ \A t \in TaskIds :
          /\ tasks[t].gets <= 1
          /\ tasks[t].fetched <=> tasks[t].gets = 1
    /\ \A t \in FailedFetch :
          /\ tasks[t].err = "request" => tasks[t].gets = 0
          /\ \A c \in TaskIds : tasks[c].parent # t
    /\ \A p \in TaskIds : \A i \in DOMAIN tasks[p].doc :
          Cardinality(ChildrenOf(p, i)) <= 1

\* Everything has returned, a link of a saved page led to a page that
\* answered with another status than 200, and it was asked for once.
NoRetriesWitness ==
    /\ pc = "returned"
    /\ Returned = TaskIds
    /\ \E t \in FailedFetch :
          /\ tasks[t].err = "status"
          /\ tasks[t].gets = 1
          /\ tasks[t].parent \in Persisted

\* C22 (links resolve against the current document): the URL of every call
\* a walk started is the attribute's value resolved against the URL of the
\* page it was found on, and the value written into the attribute is the
\* local path of that same URL.
ResolvedAgainstCurrent ==
    \A c \in TaskIds :
        tasks[c].parent # 0 =>
           LET p == tasks[c].parent
               attr == tasks[p].doc[tasks[c].link]
           IN  /\ attr.link.kind # "bad"
               /\ tasks[c].url = ResolveReference(tasks[p].url, attr.link)
               /\ attr.rewritten
               /\ attr.val = getPathFromURL(tasks[c].url.path, LinkHasHtm(attr.link))

\* A relative link on a page one link away from the seed was followed, and
\* resolving it against the seed's URL would have given another URL.
ResolvedAgainstCurrentWitness ==
    \E c \in TaskIds :
        /\ tasks[c].hops = 2
        /\ tasks[c].fetched
        /\ LET attr == tasks[tasks[c].parent].doc[tasks[c].link]
           IN  /\ attr.link.scheme = "" /\ attr.link.host = ""
               /\ tasks[c].url # ResolveReference(seed.url, attr.link)

\* The calls that computed the path of the file for their response.
Mapped == { t \in TaskIds : tasks[t].fetched /\ tasks[t].phase # "new"
                               /\ tasks[t].err \notin {"fetch", "status"} }

\* The applications of getPathFromURL so far, as pairs of a URL and the path
\* it was mapped to: for the file of a response, and for an attribute.
Mappings ==
    { <<tasks[t].url, getPathFromURL(tasks[t].url.path, tasks[t].isHTML)>> : t \in Mapped }
    \cup
    UNION { { <<ResolveReference(tasks[p].url, tasks[p].doc[i].link), tasks[p].doc[i].val>> :
                 i \in { j \in DOMAIN tasks[p].doc : tasks[p].doc[j].rewritten } } :
            p \in TaskIds }

\* C23 (deterministic mapping): within one run, every application of the
\* mapping to the same URL gives the same local path.
DeterministicMapping ==
    \A m \in Mappings : \A n \in Mappings : m[1] = n[1] => m[2] = n[2]

\* The calls of a tree of the given height in which every page has width
\* links.
RECURSIVE TreeSize(_, _)
TreeSize(height, width) ==
    IF height <= 0 THEN 1 ELSE 1 + width * TreeSize(height - 1, width)

\* The most attributes a walked page has.
Width ==
    LET n == { Len(tasks[p].doc) : p \in TaskIds }
    IN  IF n = {} THEN 0 ELSE CHOOSE m \in n : \A k \in n : k <= m

\* C24 (termination on cyclic graphs): every call started by a walk has one
\* less depth than the call that walked, and no call has less than -1, so
\* that with depth budget d the calls form a tree of height d + 1 at most;
\* and every call that was started eventually returns, as does Download.
TerminationOnCycles ==
    /\ [](\A c \in TaskIds :
             /\ tasks[c].depth >= -1 \/ c = 1
             /\ tasks[c].parent # 0 =>
                   /\ tasks[c].parent < c
                   /\ tasks[c].depth = tasks[tasks[c].parent].depth - 1
                   /\ tasks[c].depth + tasks[c].hops = depth0)
    /\ [](Len(tasks) <= TreeSize(depth0 + 1, Width))
    /\ <>[](pc = "returned" /\ Returned = TaskIds)

\* Everything has returned after a page was fetched again through a link of
\* a page it links to: a cycle of the link graph was gone through.
TerminationOnCyclesWitness ==
    /\ pc = "returned"
    /\ Returned = TaskIds
    /\ \E c \in TaskIds :
          /\ tasks[c].fetched
          /\ tasks[c].parent # 0
          /\ tasks[tasks[c].parent].parent # 0
          /\ tasks[c].url = tasks[tasks[tasks[c].parent].parent].url

\* C25 (races on one destination file): nothing keeps a call from the file
\* of another: a call that has its response and whose destination is a file
\* that exists, whoever wrote it, can create it again, which truncates it.
RacesOnOneFile ==
    \A t \in TaskIds :
        (/\ tasks[t].phase = "fetched"
         /\ FilePath(tasks[t]) \in DOMAIN files)
           => ENABLED (/\ Create(t)
                       /\ tasks'[t].phase = "created"
                       /\ files'[FilePath(tasks[t])] = Content("empty", t))

\* A call has persisted its rewritten page, and the file now is truncated or
\* holds the raw HTML written by another call for the same destination,
\* which has not returned yet.
RacesOnOneFileWitness ==
    \E t \in Persisted : \E u \in TaskIds \ Returned :
        /\ u # t
        /\ tasks[u].phase \in {"created", "walked"}
        /\ FilePath(tasks[u]) = FilePath(tasks[t])
        /\ files[FilePath(tasks[t])].by = u
        /\ files[FilePath(tasks[t])].kind \in {"empty", "raw"}

\* The call went past the two early returns: it sent its request, or failed
\* to make it.
PassedFilter(t) == tasks[t].fetched \/ tasks[t].err = "request"

\* C26 (hostname equality of the domain filter): under a non-empty domain
\* anchor, a call with budget left goes on to its request exactly when the
\* host of its URL equals the anchor, the case of the letters ignored.
HostnameEqualityIgnoringCase ==
    \A t \in Returned :
        (baseDomain # "" /\ tasks[t].depth >= 0)
           => (PassedFilter(t) <=> ToLower(tasks[t].url.host) = ToLower(baseDomain))

\* C27 (domain anchor never empty): once Download has accepted its seed and
\* called downloadRecursive, the domain anchor is a non-empty host name, and
\* no call sends a request to a host other than the anchor.
DomainAnchorNeverEmpty ==
    Len(tasks) > 0 =>
        /\ baseDomain # ""
        /\ \A t \in TaskIds : tasks[t].fetched => tasks[t].url.host = baseDomain

\* The call's request could not be made, or the network call failed, or the
\* response was not 200 OK.
FetchFailed(t) ==
    \/ tasks[t].err = "request"
    \/ tasks[t].fetched /\ Fetch(tasks[t].url).status # "ok"

\* C28 (a failed fetch writes nothing): a call whose request cannot be made
\* or whose fetch fails has returned an error and holds no file, and the
\* step in which a call returns from its request or one of the tests before
\* it changes no directory and no file.
FailedFetchWritesNothing ==
    /\ [](\A t \in TaskIds :
            FetchFailed(t) =>
               /\ tasks[t].phase = "done" /\ tasks[t].result = "err"
               /\ \A loc \in DOMAIN files : files[loc].by # t)
    /\ [][\A t \in TaskIds :
            (t \in DOMAIN tasks' /\ tasks[t].phase = "new" /\ tasks'[t].phase = "done")
               => (dirs' = dirs /\ files' = files)]_vars

\* A call dispatched from a saved page got a response that was not 200 OK:
\* its destination does not exist, while its parent's file does.
FailedFetchWritesNothingWitness ==
    \E t \in TaskIds :
        /\ tasks[t].err = "status" /\ tasks[t].parent # 0
        /\ tasks[tasks[t].parent].phase = "done"
        /\ FilePath(tasks[tasks[t].parent]) \in DOMAIN files
        /\ \A u \in TaskIds : FilePath(tasks[u]) \in DOMAIN files
                                 => FilePath(tasks[u]) # FilePath(tasks[t])

\* C29 (success implies content): every result sent without an error is for
\* a URL with at least one downloaded snapshot.
SuccessImpliesContent ==
    \A k \in 1..Len(sent) : ~sent[k].err => Len(snaps[sent[k].url]) > 0

\* The snapshot taken at a is more recent than the one taken at b.
MoreRecent(a, b) == a = "20" /\ b = "10"

\* The data rows of a response that have all their fields.
FullRows(raw) == SelectSeq(Tail(raw), LAMBDA row : Len(row) >= MinCDXFields)

\* C30 (most recent archived version): when the direct download failed and
\* one archived snapshot was downloaded, none of the records returned for
\* the URL is more recent than it; parseCDXResponse fails on fewer than 2
\* rows and otherwise returns the rows with 6 fields or more, without the
\* header, in their order.
MostRecentArchivedVersion ==
    /\ \A w \in Workers :
          (/\ ~flags.all /\ ~flags.specific
           /\ wpc[w] \in {"post", "report", "done", "exited"}
           /\ snaps[w] # <<>> /\ snaps[w] # <<"Current">>)
             => \A k \in 1..Len(cdx[w]) : ~MoreRecent(cdx[w][k].Timestamp, snaps[w][1])
    /\ \A raw \in RawResponses :
          LET parsed == parseCDXResponse(raw)
          IN  /\ parsed.err <=> Len(raw) < 2
              /\ ~parsed.err =>
                    /\ Len(parsed.snapshots) = Len(FullRows(raw))
                    /\ \A k \in 1..Len(parsed.snapshots) :
                          parsed.snapshots[k].Timestamp = FullRows(raw)[k][1]

====
